---- MODULE Spec2Model ----
(***************************************************************************)
(* Model of ngrams.py: train_model builds a bigram and an n-gram Laplace   *)
(* conditional probability distribution from the token stream, and         *)
(* generate_sentence walks them at random; main retries until SENT_COUNT   *)
(* sentences were accepted.                                                *)
(*                                                                         *)
(* Strings are sequences of one-character strings, so that the substring   *)
(* tests (word in ',:;''".!?'), str.split() and retval[:-1] + word are     *)
(* computed on characters as Python computes them.  A token is a string;   *)
(* a context is a tuple of tokens.                                         *)
(***************************************************************************)
EXTENDS Integers, Sequences, FiniteSets, TLC

VARIABLES N_VAL, SENT_COUNT, CORPORA, pc, tokens, bi_cpdist, cpdist,
          ctr, printed, gpc, sample, retval, gctr, word, sent

vars == <<N_VAL, SENT_COUNT, CORPORA, pc, tokens, bi_cpdist, cpdist,
          ctr, printed, gpc, sample, retval, gctr, word, sent>>

(* ---------------------------- bounds ----------------------------------- *)
MaxN == 4
MaxTokens == 3
MaxSentCount == 1
MaxWords == 6

(* ---------------------------- tokens ----------------------------------- *)
START == <<"S", "T", "A", "R", "T">>
END == <<"E", "N", "D">>
SPACE == <<" ">>

\* the string literal ',:;\'".!?' of lines 161 and 177
PUNCT == <<",", ":", ";", "'", "\"", ".", "!", "?">>
\* the string literal '.!?' of lines 165 and 180
TERM == <<".", "!", "?">>

\* tokens word_tokenize yields for the lowercased corpus text
Vocab == {<<"a">>, <<"b">>, <<",">>, <<".">>}

the == <<"t", "h", "e">>
cat == <<"c", "a", "t">>
sat == <<"s", "a", "t">>
ran == <<"r", "a", "n">>
dot == <<".">>

\* "The cat sat. The cat ran." after sent_tokenize / word_tokenize
Scenario == << <<the, cat, sat, dot>>, <<the, cat, ran, dot>> >>

\* the lowercased text as a flat run of tokens, before it is cut into sentences
Texts == UNION {[1..k -> Vocab] : k \in 0..MaxTokens}

\* sent_tokenize: the text cut into non-empty sentences after the positions in cuts
RECURSIVE Sentences(_, _)
Sentences(text, cuts) ==
    IF text = <<>> THEN <<>>
    ELSE LET cut == IF cuts = {} THEN Len(text)
                    ELSE CHOOSE c \in cuts : \A d \in cuts : c <= d
         IN <<SubSeq(text, 1, cut)>> \o
            Sentences(SubSeq(text, cut + 1, Len(text)),
                      {c - cut : c \in cuts \ {cut}})

Corpora ==
    (UNION {{Sentences(t, cuts) : cuts \in SUBSET (1..(Len(t) - 1))} : t \in Texts})
        \cup {Scenario}

(* ------------------------ Python string helpers ------------------------ *)
\* Python's  w in s  on strings: w is a contiguous substring of s
InStr(w, s) ==
    \E i \in 1..(Len(s) + 1) :
        /\ i + Len(w) - 1 <= Len(s)
        /\ SubSeq(s, i, i + Len(w) - 1) = w

\* Python's  s.split(): maximal runs of non-whitespace characters
Split(s) ==
    LET RECURSIVE go(_, _, _)
        go(i, cur, acc) ==
            IF i > Len(s)
            THEN (IF cur = <<>> THEN acc ELSE Append(acc, cur))
            ELSE IF s[i] = " "
                 THEN go(i + 1, <<>>, IF cur = <<>> THEN acc ELSE Append(acc, cur))
                 ELSE go(i + 1, Append(cur, s[i]), acc)
    IN go(1, <<>>, <<>>)

\* the trailing space is not trimmed
DropLast_untrimmed(s) == s

\* Python's  s[:-1]
DropLast(s) == IF Len(s) = 0 THEN s ELSE SubSeq(s, 1, Len(s) - 1)

(* ----------------------------- train_model ----------------------------- *)
\* lines 113-117: every sentence is wrapped as START ... END and the token
\* lists are concatenated into one flat list
RECURSIVE Wrap(_)
Wrap(ss) ==
    IF ss = <<>> THEN <<>>
    ELSE Wrap(SubSeq(ss, 1, Len(ss) - 1)) \o (<<START>> \o ss[Len(ss)] \o <<END>>)

\* nltk.ngrams(tokens, n): the width-n windows, stride 1, none when the
\* sequence is shorter than n
Ngrams(toks, n) ==
    [i \in 1..(IF Len(toks) >= n THEN Len(toks) - n + 1 ELSE 0) |->
        SubSeq(toks, i, i + n - 1)]

EmptyDist == [x \in {} |-> 0]

\* a first observation is recorded as 0
Inc_fromzero(fd, s) ==
    IF s \in DOMAIN fd THEN [fd EXCEPT ![s] = @ + 1] ELSE fd @@ (s :> 0)

\* FreqDist[s] += 1
Inc(fd, s) ==
    IF s \in DOMAIN fd THEN [fd EXCEPT ![s] = @ + 1] ELSE fd @@ (s :> 1)

\* ConditionalFreqDist.__init__ body: self[cond][sample] += 1, where a new
\* condition starts from an empty FreqDist
Observe(cfd, c, s) ==
    IF c \in DOMAIN cfd
    THEN [cfd EXCEPT ![c] = Inc(@, s)]
    ELSE cfd @@ (c :> Inc(EmptyDist, s))

\* ConditionalFreqDist(pairs): the pairs are accumulated in order
RECURSIVE ConditionalFreqDist(_)
ConditionalFreqDist(pairs) ==
    IF pairs = <<>> THEN EmptyDist
    ELSE LET p == pairs[Len(pairs)]
         IN Observe(ConditionalFreqDist(SubSeq(pairs, 1, Len(pairs) - 1)), p[1], p[2])

\* FreqDist.N(): total number of observations
RECURSIVE SumOver(_, _)
SumOver(fd, S) ==
    IF S = {} THEN 0
    ELSE LET s == CHOOSE x \in S : TRUE IN fd[s] + SumOver(fd, S \ {s})

FreqN(fd) == SumOver(fd, DOMAIN fd)

\* FreqDist.B(): number of distinct samples
FreqB(fd) == Cardinality(DOMAIN fd)

\* LaplaceProbDist(freqdist): Lidstone with gamma = 1 and bins = freqdist.B()
GAMMA == 1

\* maximum-likelihood estimate: nothing is added to the counts
LaplaceProbDist_mle(fd) ==
    [freq |-> fd, gamma |-> 0, bins |-> FreqB(fd), total |-> FreqN(fd)]

LaplaceProbDist(fd) ==
    [freq |-> fd, gamma |-> GAMMA, bins |-> FreqB(fd), total |-> FreqN(fd)]

\* LidstoneProbDist.prob(sample) = (c + gamma) / (N + bins * gamma), kept as
\* the pair <<numerator, denominator>>
Prob(pd, s) ==
    << (IF s \in DOMAIN pd.freq THEN pd.freq[s] ELSE 0) + pd.gamma,
       pd.total + pd.bins * pd.gamma >>

\* LidstoneProbDist.samples()
Samples(pd) == DOMAIN pd.freq

\* ConditionalProbDist(cfdist, LaplaceProbDist)
ConditionalProbDist(cfd) == [c \in DOMAIN cfd |-> LaplaceProbDist(cfd[c])]

\* lines 122-125: conditions ngram[0], samples ngram[:2], over the width-N windows
BigramPairs(ngrams_) ==
    [i \in 1..Len(ngrams_) |-> <<ngrams_[i][1], SubSeq(ngrams_[i], 1, 2)>>]

\* the context is taken one token too late: ngram[1:N_VAL]
NgramPairs_shifted(ngrams_, n) ==
    [i \in 1..Len(ngrams_) |-> <<SubSeq(ngrams_[i], 2, n), ngrams_[i]>>]

\* lines 131-134: conditions ngram[:N_MINUS1], samples the whole ngram
NgramPairs(ngrams_, n) ==
    [i \in 1..Len(ngrams_) |-> <<SubSeq(ngrams_[i], 1, n - 1), ngrams_[i]>>]

BiCpdist(toks, n) == ConditionalProbDist(ConditionalFreqDist(BigramPairs(Ngrams(toks, n))))

Cpdist(toks, n) == ConditionalProbDist(ConditionalFreqDist(NgramPairs(Ngrams(toks, n), n)))

\* the absent context is stored with an empty distribution
Missing_stored(cpd, key) == cpd @@ (key :> LaplaceProbDist(EmptyDist))

\* ConditionalProbDist.__missing__ on the lookup of an absent context (lines
\* 149, 160, 172): LaplaceProbDist(FreqDist()) raises ValueError before the
\* new entry is stored, so the table is left as it was
Missing(cpd, key) == cpd

(* ------------------------------- Init ---------------------------------- *)
Init ==
    /\ N_VAL \in 2..MaxN
    /\ SENT_COUNT \in 0..MaxSentCount
    /\ CORPORA \in Corpora
    /\ pc = "train"
    /\ tokens = <<>>
    /\ bi_cpdist = EmptyDist
    /\ cpdist = EmptyDist
    /\ ctr = 0
    /\ printed = <<>>
    /\ gpc = "idle"
    /\ sample = <<>>
    /\ retval = <<>>
    /\ gctr = 0
    /\ word = <<>>
    /\ sent = <<>>

(* ------------------------------ main ----------------------------------- *)
\* lines 194-195: train_model() builds both distributions, ctr = 0
train_model ==
    /\ pc = "train"
    /\ tokens' = Wrap(CORPORA)
    /\ bi_cpdist' = BiCpdist(Wrap(CORPORA), N_VAL)
    /\ cpdist' = Cpdist(Wrap(CORPORA), N_VAL)
    /\ ctr' = 0
    /\ pc' = "loop"
    /\ UNCHANGED <<N_VAL, SENT_COUNT, CORPORA, printed, gpc, sample, retval,
                   gctr, word, sent>>

\* line 196: loop test; line 197: the call of generate_sentence
main_loop ==
    /\ pc = "loop"
    /\ IF ctr < SENT_COUNT
       THEN /\ pc' = "gen"
            /\ gpc' = "start"
       ELSE /\ pc' = "done"
            /\ gpc' = gpc
    /\ UNCHANGED <<N_VAL, SENT_COUNT, CORPORA, tokens, bi_cpdist, cpdist, ctr,
                   printed, sample, retval, gctr, word, sent>>

\* the sentence is accepted with exactly N_VAL words too
Accepts_atleast(s, n) == Len(Split(s)) >= n

\* any sentence with a word is accepted
Accepts_any(s, n) == Len(Split(s)) > 0

\* line 198: len(sent.split()) > N_VAL
Accepts(s, n) == Len(Split(s)) > n

\* lines 198-200: the sentence is printed and counted when it has more than
\* N_VAL whitespace-separated words
main_check ==
    /\ pc = "check"
    /\ IF Accepts(sent, N_VAL)
       THEN /\ printed' = Append(printed, sent)
            /\ ctr' = ctr + 1
       ELSE UNCHANGED <<printed, ctr>>
    /\ pc' = "loop"
    /\ UNCHANGED <<N_VAL, SENT_COUNT, CORPORA, tokens, bi_cpdist, cpdist,
                   gpc, sample, retval, gctr, word, sent>>

(* -------------------------- generate_sentence -------------------------- *)
\* return <value> to main
Return(value) ==
    /\ sent' = value
    /\ gpc' = "idle"
    /\ pc' = "check"

\* an exception leaves generate_sentence and main
Raise ==
    /\ gpc' = "raised"
    /\ pc' = "crashed"
    /\ UNCHANGED sent

\* the accumulated text is not split: sample = (retval,)
EnterContinuation_nosplit(rv) ==
    /\ sample' = <<rv>>
    /\ gpc' = "cont"
    /\ UNCHANGED <<pc, sent>>

\* the counter is decremented for every sampled token
BootCtr_always(c, adv) == c - 1

\* lines 161-164: ctr -= 1 only when the word is appended
BootCtr(c, adv) == IF adv THEN c - 1 ELSE c

\* the context is not slid forward: sample[0:N_MINUS1]
Slide_stale(o, n) == SubSeq(o, 1, n - 1)

\* line 179: sample = sample[1:N_VAL]
Slide(o, n) == SubSeq(o, 2, n)

\* the token before the last one is taken: sample[N_MINUS1 - 1]
NextWord_offbyone(o, n) == o[n - 1]

\* line 176: word = sample[N_MINUS1]
NextWord(o, n) == o[(n - 1) + 1]

\* line 168-169: sample = tuple(retval.split()); the continuation loop starts
EnterContinuation(rv) ==
    /\ sample' = Split(rv)
    /\ gpc' = "cont"
    /\ UNCHANGED <<pc, sent>>

\* lines 148-158: the first word is sampled from the START context
gen_start ==
    /\ gpc = "start"
    /\ IF START \notin DOMAIN bi_cpdist
       THEN /\ bi_cpdist' = Missing(bi_cpdist, START)
            /\ Return(<<>>)
            /\ UNCHANGED <<sample, retval, gctr, word>>
       ELSE \E o \in Samples(bi_cpdist[START]) :
               /\ retval' = o[2] \o SPACE
               /\ word' = <<>>
               /\ bi_cpdist' = bi_cpdist
               /\ IF N_VAL > 2
                  THEN /\ gctr' = N_VAL
                       /\ sample' = o[2]
                       /\ gpc' = "bootstrap"
                       /\ UNCHANGED <<pc, sent>>
                  ELSE /\ gctr' = 0
                       /\ EnterContinuation(o[2] \o SPACE)
    /\ UNCHANGED <<N_VAL, SENT_COUNT, CORPORA, tokens, cpdist, ctr, printed>>

\* lines 159-166 (one iteration of the bootstrap loop), then 168-169 when
\* the loop ends
bootstrap_step ==
    /\ gpc = "bootstrap"
    /\ Len(Split(retval)) < MaxWords
    /\ IF sample \notin DOMAIN bi_cpdist
       THEN /\ bi_cpdist' = Missing(bi_cpdist, sample)
            /\ Raise
            /\ UNCHANGED <<sample, retval, gctr, word>>
       ELSE \E o \in Samples(bi_cpdist[sample]) :
               LET w == o[2]
                   adv == ~InStr(w, PUNCT)
                   rv == IF adv THEN retval \o w \o SPACE ELSE retval
                   c == BootCtr(gctr, adv)
               IN /\ word' = w
                  /\ bi_cpdist' = bi_cpdist
                  /\ retval' = rv
                  /\ gctr' = c
                  /\ IF InStr(w, TERM)
                     THEN /\ Return(DropLast(rv) \o w)
                          /\ sample' = IF adv THEN w ELSE sample
                     ELSE IF c > 2
                          THEN /\ sample' = IF adv THEN w ELSE sample
                               /\ UNCHANGED <<gpc, pc, sent>>
                          ELSE EnterContinuation(rv)
    /\ UNCHANGED <<N_VAL, SENT_COUNT, CORPORA, tokens, cpdist, ctr, printed>>

\* lines 170-181: one iteration of the continuation loop
continuation_step ==
    /\ gpc = "cont"
    /\ Len(Split(retval)) < MaxWords
    /\ IF sample \notin DOMAIN cpdist
       THEN /\ cpdist' = Missing(cpdist, sample)
            /\ Return(<<>>)
            /\ UNCHANGED <<sample, retval, gctr, word>>
       ELSE \E o \in Samples(cpdist[sample]) :
               LET w == NextWord(o, N_VAL)
                   adv == ~InStr(w, PUNCT)
                   rv == IF adv THEN retval \o w \o SPACE ELSE retval
               IN /\ word' = w
                  /\ cpdist' = cpdist
                  /\ retval' = rv
                  /\ sample' = IF adv THEN Slide(o, N_VAL) ELSE o
                  /\ gctr' = gctr
                  /\ IF InStr(w, TERM)
                     THEN Return(DropLast(rv) \o w)
                     ELSE UNCHANGED <<gpc, pc, sent>>
    /\ UNCHANGED <<N_VAL, SENT_COUNT, CORPORA, tokens, bi_cpdist, ctr, printed>>

Next ==
    \/ train_model
    \/ main_loop
    \/ main_check
    \/ gen_start
    \/ bootstrap_step
    \/ continuation_step

Spec == Init /\ [][Next]_vars

(* ------------------------------ properties ----------------------------- *)
Range(f) == {f[i] : i \in DOMAIN f}

\* the words of a string joined by single spaces
RECURSIVE Join(_)
Join(ws) ==
    IF ws = <<>> THEN <<>>
    ELSE IF Len(ws) = 1 THEN ws[1]
    ELSE ws[1] \o SPACE \o Join(Tail(ws))

\* the lookup the next sampling step performs meets an absent context
MissingContext ==
    \/ gpc = "start" /\ START \notin DOMAIN bi_cpdist
    \/ gpc = "bootstrap" /\ sample \notin DOMAIN bi_cpdist
    \/ gpc = "cont" /\ sample \notin DOMAIN cpdist

\* every sentence of the corpus starts with a word
WordsFirst ==
    \A i \in 1..Len(CORPORA) : ~InStr(CORPORA[i][1], PUNCT)

\* C1: whenever a sampling step of generate_sentence meets a context with no
\* recorded transitions (START, bootstrap or continuation lookup), the attempt
\* ends with the empty result returned to main and no exception leaves
\* generate_sentence (here for corpora whose sentences start with a word).
C1_AbsentContextReturnsEmpty ==
    [][(WordsFirst /\ MissingContext) =>
          (sent' = <<>> /\ gpc' = "idle" /\ pc' = "check")]_vars

\* every sentence of the corpus is one or more words followed by '.'
WordsThenDot(s) ==
    /\ Len(s) >= 2
    /\ s[Len(s)] = dot
    /\ \A i \in 1..(Len(s) - 1) : ~InStr(s[i], PUNCT)

ShortDotCorpus ==
    /\ CORPORA # <<>>
    /\ \A i \in 1..Len(CORPORA) : WordsThenDot(CORPORA[i])

\* C2: for a corpus whose sentences are short and end in '.', a call of
\* generate_sentence that has ended has returned a string whose last
\* character is '.', '!' or '?'.
C2_EndedCallReturnedSentence ==
    (ShortDotCorpus /\ pc \in {"check", "crashed"}) =>
        /\ pc = "check"
        /\ sent # <<>>
        /\ InStr(<<sent[Len(sent)]>>, TERM)

\* C3: no sentence printed by main (hence returned by generate_sentence)
\* has START or END among its whitespace-separated words (here for corpora
\* whose sentences start with a word).
C3_NoSentinelInSentence ==
    WordsFirst =>
        \A i \in 1..Len(printed) :
            /\ START \notin Range(Split(printed[i]))
            /\ END \notin Range(Split(printed[i]))

C5_TooFewTokensNoModel ==
    (CORPORA # <<>> /\ Len(Wrap(CORPORA)) < N_VAL) => pc = "train"

\* C6: with no corpus text (or only empty texts) no model is built and
\* main makes no generation attempt.
C6_EmptyCorpusNoGeneration ==
    CORPORA = <<>> => (pc \notin {"gen", "check"} /\ gpc = "idle")

\* the count of outcome w1 under context w0 in the bigram table
BiCount(w0, w1) ==
    IF w0 \in DOMAIN bi_cpdist /\ <<w0, w1>> \in DOMAIN bi_cpdist[w0].freq
    THEN bi_cpdist[w0].freq[<<w0, w1>>]
    ELSE 0

\* C7: after training, for all tokens w0, w1 the bigram count of w1 under w0
\* is the number of positions i in 0..len(tokens)-2 with tokens[i] = w0 and
\* tokens[i+1] = w1 (here for corpora whose sentences start with a word).
C7_BigramCountsEveryAdjacentPair ==
    (pc = "loop" /\ WordsFirst) =>
        \A w0 \in Range(tokens) : \A w1 \in Range(tokens) :
            BiCount(w0, w1) =
                Cardinality({i \in 1..(Len(tokens) - 1) :
                                tokens[i] = w0 /\ tokens[i + 1] = w1})

\* the positions at which a width-k window g occurs in the token sequence
Occurrences(g, k) ==
    {i \in 1..(Len(tokens) - k + 1) : SubSeq(tokens, i, i + k - 1) = g}

WindowStarts == {i \in 1..(Len(tokens) - N_VAL + 1) : i >= 1}

\* C8: after training, the contexts of the n-gram table are exactly the
\* (n-1)-token prefixes of the width-n windows of the flat token sequence,
\* the outcomes of a context are exactly the windows that start with it, and
\* the count of a window is the number of positions at which it occurs.
C8_NgramTableCountsWindows ==
    pc = "loop" =>
        /\ DOMAIN cpdist =
              {SubSeq(tokens, i, i + N_VAL - 2) : i \in WindowStarts}
        /\ \A c \in DOMAIN cpdist :
              /\ DOMAIN cpdist[c].freq =
                    {SubSeq(tokens, i, i + N_VAL - 1) :
                        i \in {j \in WindowStarts :
                                  SubSeq(tokens, j, j + N_VAL - 2) = c}}
              /\ \A g \in DOMAIN cpdist[c].freq :
                    cpdist[c].freq[g] = Cardinality(Occurrences(g, N_VAL))

\* the index of END directly followed by START inside the window g, if any
SpansBoundary(g) ==
    \E k \in 1..(Len(g) - 1) : g[k] = END /\ g[k + 1] = START

\* trained on a stream where one window occurs twice and another window
\* spans an END/START sentence boundary
C8_Witness ==
    /\ pc = "loop"
    /\ \E c \in DOMAIN cpdist : \E g \in DOMAIN cpdist[c].freq :
          cpdist[c].freq[g] >= 2
    /\ \E c \in DOMAIN cpdist : \E g \in DOMAIN cpdist[c].freq :
          SpansBoundary(g)

RECURSIVE SumNumerators(_, _)
SumNumerators(pd, S) ==
    IF S = {} THEN 0
    ELSE LET s == CHOOSE x \in S : TRUE
         IN Prob(pd, s)[1] + SumNumerators(pd, S \ {s})

\* the Laplace probabilities of one distribution, with the counts taken over
\* the width-N_VAL windows of the token sequence; k is the outcome width
LaplaceHolds(pd, k) ==
    LET outs == Samples(pd)
        cnt(o) == Cardinality({i \in WindowStarts : SubSeq(tokens, i, i + k - 1) = o})
        tot == Cardinality({i \in WindowStarts : SubSeq(tokens, i, i + k - 1) \in outs})
    IN /\ outs # {}
       /\ \A o \in outs :
             /\ Prob(pd, o) = <<cnt(o) + 1, tot + Cardinality(outs)>>
             /\ Prob(pd, o)[1] > 0
             /\ Prob(pd, o)[2] > 0
       /\ \A o \in outs : SumNumerators(pd, outs) = Prob(pd, o)[2]

\* C9: for every context of the bigram and of the n-gram distribution, each
\* observed outcome has probability (count + 1) / (total + distinct
\* outcomes), every such probability is nonzero, and the (count + 1) terms
\* add up to the denominator.
C9_LaplaceProbabilitiesSumToOne ==
    pc = "loop" =>
        /\ \A c \in DOMAIN bi_cpdist : LaplaceHolds(bi_cpdist[c], 2)
        /\ \A c \in DOMAIN cpdist : LaplaceHolds(cpdist[c], N_VAL)

\* trained: some context has two distinct outcomes with different counts
C9_Witness ==
    /\ pc = "loop"
    /\ \E c \in DOMAIN cpdist :
          \E o1 \in Samples(cpdist[c]) : \E o2 \in Samples(cpdist[c]) :
              cpdist[c].freq[o1] = 1 /\ cpdist[c].freq[o2] = 2

ScenarioTokens ==
    <<START, the, cat, sat, dot, END, START, the, cat, ran, dot, END>>

\* C10: training with n = 3 on [START, the, cat, sat, ., END, START, the,
\* cat, ran, ., END] gives a bigram START context whose only outcome is
\* 'the', and an n-gram context (the, cat) with exactly the outcomes
\* (the, cat, sat) and (the, cat, ran), each counted once and with equal
\* probability.
C10_ScenarioDistributions ==
    (pc = "loop" /\ N_VAL = 3 /\ tokens = ScenarioTokens) =>
        /\ START \in DOMAIN bi_cpdist
        /\ {o[2] : o \in Samples(bi_cpdist[START])} = {the}
        /\ <<the, cat>> \in DOMAIN cpdist
        /\ Samples(cpdist[<<the, cat>>]) = {<<the, cat, sat>>, <<the, cat, ran>>}
        /\ cpdist[<<the, cat>>].freq[<<the, cat, sat>>] = 1
        /\ cpdist[<<the, cat>>].freq[<<the, cat, ran>>] = 1
        /\ Prob(cpdist[<<the, cat>>], <<the, cat, sat>>) =
              Prob(cpdist[<<the, cat>>], <<the, cat, ran>>)

C10_Witness ==
    /\ pc = "loop"
    /\ N_VAL = 3
    /\ CORPORA = Scenario
    /\ tokens = ScenarioTokens

\* the number of whitespace-separated words of a string: the positions at
\* which a run of non-space characters starts
WordCount(s) ==
    Cardinality({i \in 1..Len(s) : s[i] # " " /\ (i = 1 \/ s[i - 1] = " ")})

\* C11: main prints and counts a result of generate_sentence exactly when it
\* has more than n whitespace-separated words; any other result, the empty
\* one included, is discarded and main goes back to its loop; printed and the
\* counter change in no other step and the counter never decreases; when
\* main has terminated exactly SENT_COUNT sentences have been printed.
C11_AcceptedIffLongerThanN ==
    /\ [][pc = "check" =>
            /\ pc' = "loop"
            /\ IF WordCount(sent) > N_VAL
               THEN printed' = Append(printed, sent) /\ ctr' = ctr + 1
               ELSE printed' = printed /\ ctr' = ctr]_vars
    /\ [][/\ ctr' >= ctr
          /\ (pc # "check" => (printed' = printed /\ (pc = "train" \/ ctr' = ctr)))]_vars
    /\ [](pc = "done" => (Len(printed) = SENT_COUNT /\ ctr = SENT_COUNT))

\* main has terminated after printing the requested sentence
C11_Witness ==
    /\ pc = "done"
    /\ SENT_COUNT >= 1
    /\ Len(printed) = SENT_COUNT
    /\ WordCount(printed[1]) > N_VAL

\* C12: once train_model has returned, no step of main or generate_sentence
\* changes the bigram or the n-gram distribution, the lookups of an absent
\* context included.
C12_DistributionsNeverChange ==
    [][pc # "train" => (bi_cpdist' = bi_cpdist /\ cpdist' = cpdist)]_vars

\* a call sampled its first word and then returned the empty result on an
\* absent n-gram context; the tables are those train_model built
C12_Witness ==
    /\ pc = "check"
    /\ sent = <<>>
    /\ START \in DOMAIN bi_cpdist
    /\ sample \notin DOMAIN cpdist
    /\ cpdist = Cpdist(tokens, N_VAL)
    /\ bi_cpdist = BiCpdist(tokens, N_VAL)

\* C13: with n = 2 generate_sentence is never in the bootstrap loop, and the
\* step that samples the first word from the START context enters the
\* continuation loop with the 1-tuple of exactly that word as its context.
C13_BigramModelSkipsBootstrap ==
    /\ [](N_VAL = 2 => gpc # "bootstrap")
    /\ [][(N_VAL = 2 /\ gpc = "start" /\ gpc' # "idle") =>
            /\ gpc' = "cont"
            /\ \E o \in Samples(bi_cpdist[START]) :
                  /\ sample' = <<o[2]>>
                  /\ retval' = o[2] \o SPACE]_vars

\* n = 2: the continuation loop is entered with the first word as context
C13_Witness ==
    /\ N_VAL = 2
    /\ gpc = "cont"
    /\ word = <<>>
    /\ Len(sample) = 1
    /\ retval = sample[1] \o SPACE

\* a non-advancing punctuation mark that does not end the sentence
Discarded(w) == w # <<>> /\ InStr(w, PUNCT) /\ ~InStr(w, TERM)

\* C14: a continuation step that samples a non-advancing, non-terminating
\* mark keeps the attempt in the continuation loop with the accumulated text
\* unchanged and with the same (n-1)-token context for the next lookup (here
\* for corpora whose sentences start with a word).
C14_DiscardKeepsNgramContext ==
    [][(WordsFirst /\ gpc = "cont" /\ sample \in DOMAIN cpdist /\ Discarded(word')) =>
          /\ gpc' = "cont"
          /\ retval' = retval
          /\ sample' = sample]_vars

\* C15: no token of the non-advancing punctuation set is an element of the
\* context the next bigram or n-gram lookup uses.
C15_NoPunctuationInContext ==
    /\ gpc = "bootstrap" => ~InStr(sample, PUNCT)
    /\ gpc = "cont" => \A i \in 1..Len(sample) : ~InStr(sample[i], PUNCT)

\* C16: a bootstrap step that samples a non-advancing, non-terminating mark
\* leaves the accumulated text, the bigram context and the counter unchanged
\* and stays in the bootstrap loop; the counter changes in a bootstrap step
\* only by one, and only together with the sampled word being appended.
C16_BootstrapDiscardChangesNothing ==
    /\ [][(gpc = "bootstrap" /\ sample \in DOMAIN bi_cpdist /\ Discarded(word')) =>
            /\ gpc' = "bootstrap"
            /\ retval' = retval
            /\ sample' = sample
            /\ gctr' = gctr]_vars
    /\ [][(gpc = "bootstrap" /\ gctr' # gctr) =>
            /\ gctr' = gctr - 1
            /\ ~InStr(word', PUNCT)
            /\ retval' = retval \o word' \o SPACE]_vars

\* the bootstrap loop has just discarded a comma and goes on with the same
\* context and the full counter
C16_Witness ==
    /\ gpc = "bootstrap"
    /\ N_VAL > 2
    /\ Discarded(word)
    /\ gctr = N_VAL
    /\ ~InStr(sample, PUNCT)
    /\ retval = sample \o SPACE

\* the last k words of a string
LastWords(str, k) ==
    LET ws == Split(str)
    IN SubSeq(ws, Len(ws) - k + 1, Len(ws))

ReturnedFromBootstrap == N_VAL > 2 /\ gctr > 2

\* C18: a sentence returned from inside the bootstrap loop has at most n-2
\* words; main prints only sentences that were returned from the
\* continuation loop after at least two words were appended there.
C18_BootstrapSentencesRejected ==
    /\ [][(gpc = "bootstrap" /\ pc' = "check") =>
            /\ ReturnedFromBootstrap'
            /\ WordCount(sent') <= N_VAL - 2]_vars
    /\ [][(gpc = "cont" /\ pc' = "check") => ~ReturnedFromBootstrap']_vars
    /\ [][(pc = "check" /\ printed' # printed) =>
            /\ ~ReturnedFromBootstrap
            /\ WordCount(retval) >= (N_VAL - 1) + 2]_vars

\* main has examined a non-empty sentence returned from the bootstrap loop
\* and has not printed it
C18_Witness ==
    /\ pc = "loop"
    /\ ReturnedFromBootstrap
    /\ WordsFirst
    /\ sent # <<>>
    /\ WordCount(sent) >= 1
    /\ printed = <<>>

\* a returned sentence as tokens: its words, the mark split off the last one
SentenceTokens(str) ==
    Append(Split(DropLast(str)), <<str[Len(str)]>>)

\* C19: for every non-empty sentence returned from the continuation loop,
\* every n consecutive tokens of its words followed by the terminating mark
\* occur as a width-n window of the training token sequence; in particular
\* the first n-1 words are a context of the n-gram table.
C19_SentenceWindowsOccurInTraining ==
    (pc = "check" /\ sent # <<>> /\ ~ReturnedFromBootstrap) =>
        LET toks == SentenceTokens(sent)
        IN /\ Len(toks) >= N_VAL
           /\ SubSeq(toks, 1, N_VAL - 1) \in DOMAIN cpdist
           /\ \A i \in 1..(Len(toks) - N_VAL + 1) :
                 Occurrences(SubSeq(toks, i, i + N_VAL - 1), N_VAL) # {}

\* n = 3: a sentence of at least three words and a mark returned from the
\* continuation loop
C19_Witness ==
    /\ pc = "check"
    /\ sent # <<>>
    /\ N_VAL = 3
    /\ gctr = 2
    /\ WordsFirst
    /\ Len(SentenceTokens(sent)) >= 4

====
